---- MODULE Spec2Model ----
(***************************************************************************)
(* A model of futon (src/futon/futon.py): the Client and Database classes  *)
(* of a small CouchDB client, together with the HTTP transport and the     *)
(* server they talk to.  Every HTTP exchange is one atomic step; create()  *)
(* is two steps (its HEAD, then its PUT) so that callers can interleave.   *)
(***************************************************************************)
EXTENDS Integers, Sequences, FiniteSets, TLC

\* ------------------------------------------------------------------------
\* Bounds of the model
\* ------------------------------------------------------------------------
MaxCalls == 2
MaxOther == 1

Callers == {1, 2}

\* ------------------------------------------------------------------------
\* Python values
\* ------------------------------------------------------------------------
None == [t |-> "none"]
Absent == [t |-> "absent"]
NoJson == [t |-> "nojson"]
PyStr(s) == [t |-> "str", v |-> s]
PyList(s) == [t |-> "list", v |-> s]
PyInt(n) == [t |-> "int", v |-> n]
PyBool(b) == [t |-> "bool", v |-> b]
PyDict(s) == [t |-> "dict", v |-> s]
PyTuple(s) == [t |-> "tuple", v |-> s]

\* bool(x) as Python computes it for the values above
Truthy(x) ==
    CASE x.t = "none" -> FALSE
      [] x.t = "str" -> x.v # ""
      [] x.t = "list" -> Len(x.v) > 0
      [] x.t = "dict" -> Len(x.v) > 0
      [] x.t = "tuple" -> Len(x.v) > 0
      [] x.t = "int" -> x.v # 0
      [] x.t = "bool" -> x.v

\* ------------------------------------------------------------------------
\* HTTP responses
\* ------------------------------------------------------------------------
Response(status, json) == [status |-> status, json |-> json]
\* no response at all: the transport raised (DNS, connect, TLS)
ConnectionError == Response(0, NoJson)
\* the request was never sent
Unsent == Response(-1, NoJson)

IsStatus(r) == r.status > 0
Is2xx(r) == r.status \in 200..299

\* requests.Response.raise_for_status(): raises for 4xx and 5xx only
RaisesForStatus(r) == r.status \in 400..599

Return(v) == [kind |-> "return", value |-> v]
Raise == [kind |-> "raise", value |-> None]

\* ------------------------------------------------------------------------
\* The code of the two classes, as functions of what the transport answers
\* ------------------------------------------------------------------------
AuthPartial(username, password) ==
    IF Truthy(username) \/ Truthy(password) THEN <<username, password>> ELSE <<>>

\* auth = (self.username, self.password) if self.username and self.password else None
Auth(username, password) ==
    IF Truthy(username) /\ Truthy(password) THEN <<username, password>> ELSE <<>>

Request(method, path, auth, body) ==
    [method |-> method, path |-> path, auth |-> auth, body |-> body]

DbName == "db"
DbUrl == "/db"
FindUrl == "/db/_find"
BulkUrl == "/db/_bulk_docs"
AllDbsUrl == "/_all_dbs"

ExistsResultCreated(r) ==
    IF r = ConnectionError THEN Raise
    ELSE IF r.status = 201 THEN Return(PyBool(TRUE))
    ELSE IF r.status = 404 THEN Return(PyBool(FALSE))
    ELSE IF r.status \in 400..599 THEN Raise
    ELSE Return(None)

\* Database.exists, after requests.head answered r
ExistsResult(r) ==
    IF r = ConnectionError THEN Raise
    ELSE IF r.status = 200 THEN Return(PyBool(TRUE))
    ELSE IF r.status = 404 THEN Return(PyBool(FALSE))
    ELSE IF RaisesForStatus(r) THEN Raise
    ELSE Return(None)

AlreadyExistsNever(e) == FALSE

\* Database.create, line 22: "if self.exists(): return False"
AlreadyExists(e) == Truthy(e.value)

PutResultSwallowed(r) ==
    IF r = ConnectionError THEN Raise
    ELSE IF RaisesForStatus(r) THEN Return(PyBool(FALSE))
    ELSE Return(PyBool(TRUE))

\* Database.create, after its PUT answered r
PutResult(r) ==
    IF r = ConnectionError THEN Raise
    ELSE IF RaisesForStatus(r) THEN Raise
    ELSE Return(PyBool(TRUE))

\* data.get(key, default) on a decoded JSON object
RECURSIVE DictGetFrom(_, _, _, _)
DictGetFrom(items, i, key, default) ==
    IF i > Len(items) THEN default
    ELSE IF items[i][1] = key THEN items[i][2]
    ELSE DictGetFrom(items, i + 1, key, default)

DictGet(d, key, default) == DictGetFrom(d.v, 1, key, default)

FindArgs(selector, columns, sort, descending, limit) ==
    [selector |-> selector, columns |-> columns, sort |-> sort,
     descending |-> descending, limit |-> limit]

FindPayloadDescendingLists(a) ==
    [selector |-> IF Truthy(a.selector) THEN a.selector ELSE PyDict(<<>>),
     fields |-> IF Truthy(a.columns) THEN a.columns ELSE Absent,
     sort |-> IF Truthy(a.sort)
              THEN IF a.sort.t = "str"
                   THEN PyList(<< PyDict(<< <<a.sort.v,
                                            IF Truthy(a.descending) THEN "desc" ELSE "asc">> >>) >>)
                   ELSE IF a.sort.t = "list"
                   THEN IF Truthy(a.descending)
                        THEN PyList([i \in 1..Len(a.sort.v) |->
                                        PyDict(<< <<a.sort.v[i].v[1][1], "desc">> >>)])
                        ELSE a.sort
                   ELSE Absent
              ELSE Absent,
     limit |-> IF Truthy(a.limit) THEN a.limit ELSE Absent]

\* Database.find, lines 83-99: the JSON body of the POST
FindPayload(a) ==
    [selector |-> IF Truthy(a.selector) THEN a.selector ELSE PyDict(<<>>),
     fields |-> IF Truthy(a.columns) THEN a.columns ELSE Absent,
     sort |-> IF Truthy(a.sort)
              THEN IF a.sort.t = "str"
                   THEN PyList(<< PyDict(<< <<a.sort.v,
                                            IF Truthy(a.descending) THEN "desc" ELSE "asc">> >>) >>)
                   ELSE IF a.sort.t = "list" THEN a.sort
                   ELSE Absent
              ELSE Absent,
     limit |-> IF Truthy(a.limit) THEN a.limit ELSE Absent]

\* Database.find, after its POST answered r
FindResult(r) ==
    IF r = ConnectionError THEN Raise
    ELSE IF RaisesForStatus(r) THEN Raise
    ELSE IF r.json = NoJson THEN Raise
    ELSE Return(DictGet(r.json, "docs", PyList(<<>>)))

\* Database.insert_one and Database.insert_many, after their POST answered r
InsertResult(r) ==
    IF r = ConnectionError THEN Raise
    ELSE IF RaisesForStatus(r) THEN Raise
    ELSE IF r.json = NoJson THEN Raise
    ELSE Return(r.json)

\* Client.databases, line 209: "if self._databases"
Memoized(memo) == Truthy(memo)

\* Client.databases, after its GET answered r
DatabasesResult(r) ==
    IF r = ConnectionError THEN Raise
    ELSE IF RaisesForStatus(r) THEN Raise
    ELSE IF r.json = NoJson THEN Raise
    ELSE Return(r.json)

MemoAfterEager(memo, r) ==
    IF r = ConnectionError \/ r.json = NoJson THEN memo ELSE r.json

\* Client._databases after the GET answered r
MemoAfter(memo, r) ==
    IF DatabasesResult(r).kind = "return" THEN r.json ELSE memo

\* ------------------------------------------------------------------------
\* The server and the transport
\* ------------------------------------------------------------------------
\* statuses a proxy or a failing server answers whatever the database's state
HeadFaults == {Response(204, NoJson), Response(301, NoJson), Response(500, NoJson)}
PutFaults == {Response(301, NoJson), Response(500, NoJson)}

HeadResponses(srv) ==
    {IF DbName \in srv THEN Response(200, NoJson) ELSE Response(404, NoJson)}
        \cup HeadFaults \cup {ConnectionError}

\* CouchDB answers 201 (or 202) when it created the database, 412 when it exists
PutResponses(srv) ==
    (IF DbName \in srv THEN {Response(412, NoJson)}
                       ELSE {Response(201, NoJson), Response(202, NoJson)})
        \cup PutFaults \cup {ConnectionError}

ServerAfterPut(srv, r) == IF Is2xx(r) THEN srv \cup {DbName} ELSE srv

Docs == PyList(<< PyDict(<< <<"name", PyStr("ann")>> >>) >>)
Written == PyDict(<< <<"ok", PyBool(TRUE)>> >>)
ErrorBody == PyDict(<< <<"error", PyStr("not_found")>> >>)

PostFaults == {Response(301, NoJson), Response(301, ErrorBody), Response(500, ErrorBody)}
GetFaults == {Response(301, NoJson), Response(500, ErrorBody)}

\* POST /db/_find: the documents, or an object without "docs"
FindResponses(srv) ==
    (IF DbName \in srv
     THEN {Response(200, PyDict(<< <<"docs", Docs>> >>)), Response(200, PyDict(<<>>))}
     ELSE {Response(404, ErrorBody)})
        \cup PostFaults \cup {ConnectionError}

\* POST /db and POST /db/_bulk_docs
InsertOneResponses(srv) ==
    (IF DbName \in srv THEN {Response(201, Written)} ELSE {Response(404, ErrorBody)})
        \cup PostFaults \cup {ConnectionError}

InsertManyResponses(srv) ==
    (IF DbName \in srv THEN {Response(201, PyList(<<Written>>))} ELSE {Response(404, ErrorBody)})
        \cup PostFaults \cup {ConnectionError}

\* GET /_all_dbs
AllDbs(srv) == IF DbName \in srv THEN PyList(<<PyStr(DbName)>>) ELSE PyList(<<>>)

GetResponses(srv) == {Response(200, AllDbs(srv))} \cup GetFaults \cup {ConnectionError}

\* ------------------------------------------------------------------------
\* State
\* ------------------------------------------------------------------------
VARIABLES
    server,       \* the names of the databases on the server
    username,     \* Client.username, copied into every Database handle
    password,     \* Client.password, copied into every Database handle
    _databases,   \* Client._databases of each caller's Client
    pc,           \* where each caller is: "idle" or between create's HEAD and PUT
    head,         \* the HEAD response a caller inside create() has seen
    calls,        \* calls started so far
    lastReq,      \* the request sent most recently
    last,         \* the call completed most recently
    justCreated,  \* the caller whose create() returned True as the latest event, or 0
    gets,         \* GET /_all_dbs requests each Client has sent
    first,        \* the response to each Client's first GET /_all_dbs
    created,      \* create() calls that returned True
    otherActs,    \* changes made on the server by other clients
    oddPut        \* some PUT was answered with a status that is neither 2xx nor an error

vars == <<server, username, password, _databases, pc, head, calls, lastReq,
          last, justCreated, gets, first, created, otherActs, oddPut>>

NoRequest == Request("none", "none", <<>>, Absent)

Call(t, op, args, result, h, r) ==
    [caller |-> t, op |-> op, args |-> args, kind |-> result.kind, value |-> result.value,
     head |-> h, req |-> r, after |-> justCreated]

NoCall ==
    [caller |-> 0, op |-> "none", args |-> Absent, kind |-> "return", value |-> None,
     head |-> Unsent, req |-> Unsent, after |-> 0]

Usernames == {None, PyStr(""), PyStr("admin")}
Passwords == {None, PyStr(""), PyStr("secret")}

Init ==
    /\ server \in SUBSET {DbName}
    /\ username \in Usernames
    /\ password \in Passwords
    /\ _databases = [c \in Callers |-> None]
    /\ pc = [t \in Callers |-> "idle"]
    /\ head = [t \in Callers |-> Unsent]
    /\ calls = 0
    /\ lastReq = NoRequest
    /\ last = NoCall
    /\ justCreated = 0
    /\ gets = [c \in Callers |-> 0]
    /\ first = [c \in Callers |-> Unsent]
    /\ created = 0
    /\ otherActs = 0
    /\ oddPut = FALSE

\* a call returns or raises; a create() that returned True after its PUT was
\* answered 2xx is remembered until the next event
Complete(call) ==
    /\ last' = call
    /\ justCreated' = IF /\ call.op = "create"
                         /\ call.kind = "return"
                         /\ call.value = PyBool(TRUE)
                         /\ call.head.status = 404
                         /\ Is2xx(call.req)
                      THEN call.caller ELSE 0

\* ------------------------------------------------------------------------
\* Database.exists
\* ------------------------------------------------------------------------
Exists(t) ==
    /\ pc[t] = "idle"
    /\ calls < MaxCalls
    /\ calls' = calls + 1
    /\ \E r \in HeadResponses(server) :
          /\ lastReq' = Request("HEAD", DbUrl, Auth(username, password), Absent)
          /\ Complete(Call(t, "exists", Absent, ExistsResult(r), r, Unsent))
    /\ UNCHANGED <<server, username, password, _databases, pc, head, gets, first,
                   created, otherActs, oddPut>>

\* ------------------------------------------------------------------------
\* Database.create: "if self.exists(): return False", then the PUT
\* ------------------------------------------------------------------------
CreateHead(t) ==
    /\ pc[t] = "idle"
    /\ calls < MaxCalls
    /\ calls' = calls + 1
    /\ \E r \in HeadResponses(server) :
          /\ lastReq' = Request("HEAD", DbUrl, Auth(username, password), Absent)
          /\ LET e == ExistsResult(r) IN
             IF e.kind = "raise"
             THEN /\ Complete(Call(t, "create", Absent, Raise, r, Unsent))
                  /\ UNCHANGED <<pc, head>>
             ELSE IF AlreadyExists(e)
             THEN /\ Complete(Call(t, "create", Absent, Return(PyBool(FALSE)), r, Unsent))
                  /\ UNCHANGED <<pc, head>>
             ELSE /\ pc' = [pc EXCEPT ![t] = "create_put"]
                  /\ head' = [head EXCEPT ![t] = r]
                  /\ UNCHANGED <<last, justCreated>>
    /\ UNCHANGED <<server, username, password, _databases, gets, first,
                   created, otherActs, oddPut>>

CreatePut(t) ==
    /\ pc[t] = "create_put"
    /\ \E r \in PutResponses(server) :
          /\ lastReq' = Request("PUT", DbUrl, Auth(username, password), Absent)
          /\ server' = ServerAfterPut(server, r)
          /\ Complete(Call(t, "create", Absent, PutResult(r), head[t], r))
          /\ created' = IF PutResult(r).kind = "return" THEN created + 1 ELSE created
          /\ oddPut' = (oddPut \/ (IsStatus(r) /\ ~Is2xx(r) /\ ~RaisesForStatus(r)))
    /\ pc' = [pc EXCEPT ![t] = "idle"]
    /\ head' = [head EXCEPT ![t] = Unsent]
    /\ UNCHANGED <<username, password, _databases, calls, gets, first, otherActs>>

\* ------------------------------------------------------------------------
\* Database.find, Database.insert_one, Database.insert_many
\* ------------------------------------------------------------------------
Find(t, a) ==
    /\ pc[t] = "idle"
    /\ calls < MaxCalls
    /\ calls' = calls + 1
    /\ \E r \in FindResponses(server) :
          /\ lastReq' = Request("POST", FindUrl, Auth(username, password), FindPayload(a))
          /\ Complete(Call(t, "find", a, FindResult(r), Unsent, r))
    /\ UNCHANGED <<server, username, password, _databases, pc, head, gets, first,
                   created, otherActs, oddPut>>

InsertOne(t, document) ==
    /\ pc[t] = "idle"
    /\ calls < MaxCalls
    /\ calls' = calls + 1
    /\ \E r \in InsertOneResponses(server) :
          /\ lastReq' = Request("POST", DbUrl, Auth(username, password), document)
          /\ Complete(Call(t, "insert_one", document, InsertResult(r), Unsent, r))
    /\ UNCHANGED <<server, username, password, _databases, pc, head, gets, first,
                   created, otherActs, oddPut>>

InsertMany(t, records) ==
    /\ pc[t] = "idle"
    /\ calls < MaxCalls
    /\ calls' = calls + 1
    /\ \E r \in InsertManyResponses(server) :
          /\ lastReq' = Request("POST", BulkUrl, Auth(username, password),
                                PyDict(<< <<"docs", records>> >>))
          /\ Complete(Call(t, "insert_many", records, InsertResult(r), Unsent, r))
    /\ UNCHANGED <<server, username, password, _databases, pc, head, gets, first,
                   created, otherActs, oddPut>>

\* ------------------------------------------------------------------------
\* Client.databases
\* ------------------------------------------------------------------------
Databases(c) ==
    /\ pc[c] = "idle"
    /\ calls < MaxCalls
    /\ calls' = calls + 1
    /\ IF Memoized(_databases[c])
       THEN /\ Complete(Call(c, "databases", Absent, Return(_databases[c]), Unsent, Unsent))
            /\ UNCHANGED <<_databases, lastReq, gets, first>>
       ELSE \E r \in GetResponses(server) :
               /\ lastReq' = Request("GET", AllDbsUrl, Auth(username, password), Absent)
               /\ _databases' = [_databases EXCEPT ![c] = MemoAfter(@, r)]
               /\ gets' = [gets EXCEPT ![c] = @ + 1]
               /\ first' = [first EXCEPT ![c] = IF @ = Unsent THEN r ELSE @]
               /\ Complete(Call(c, "databases", Absent, DatabasesResult(r), Unsent, r))
    /\ UNCHANGED <<server, username, password, pc, head, created, otherActs, oddPut>>

\* ------------------------------------------------------------------------
\* Other clients of the same server
\* ------------------------------------------------------------------------
OtherCreate ==
    /\ otherActs < MaxOther
    /\ DbName \notin server
    /\ server' = server \cup {DbName}
    /\ otherActs' = otherActs + 1
    /\ justCreated' = 0
    /\ UNCHANGED <<username, password, _databases, pc, head, calls, lastReq,
                   last, gets, first, created, oddPut>>

OtherDelete ==
    /\ otherActs < MaxOther
    /\ DbName \in server
    /\ server' = server \ {DbName}
    /\ otherActs' = otherActs + 1
    /\ justCreated' = 0
    /\ UNCHANGED <<username, password, _databases, pc, head, calls, lastReq,
                   last, gets, first, created, oddPut>>

\* ------------------------------------------------------------------------
\* Inputs
\* ------------------------------------------------------------------------
Selectors == {None, PyDict(<< <<"age", PyInt(30)>> >>)}
Columns == {None, PyList(<<PyStr("name")>>)}
SortByAge == PyList(<< PyDict(<< <<"age", "asc">> >>) >>)
Sorts == {None, PyStr(""), PyStr("age"), PyStr("name"), PyList(<<>>), SortByAge,
          PyTuple(<< PyStr("age") >>)}
Limits == {PyInt(0), PyInt(5)}

AllFindArgs ==
    {FindArgs(s, c, o, d, l) :
        s \in Selectors, c \in Columns, o \in Sorts, d \in {PyBool(FALSE), PyBool(TRUE)},
        l \in Limits}

SomeFindArgs ==
    {FindArgs(None, None, None, PyBool(FALSE), None),
     FindArgs(None, None, PyStr("age"), PyBool(TRUE), None)}

Document == PyDict(<< <<"name", PyStr("ann")>> >>)
Records == PyList(<< Document >>)

Next ==
    \/ \E t \in Callers : Exists(t)
    \/ \E t \in Callers : CreateHead(t)
    \/ \E t \in Callers : CreatePut(t)
    \/ \E t \in Callers : \E a \in SomeFindArgs : Find(t, a)
    \/ \E t \in Callers : InsertOne(t, Document)
    \/ \E t \in Callers : InsertMany(t, Records)
    \/ \E c \in Callers : Databases(c)
    \/ OtherCreate
    \/ OtherDelete

Spec == Init /\ [][Next]_vars

\* The find() calls alone, over every combination of its arguments
NextFind == \E t \in Callers : \E a \in AllFindArgs : Find(t, a)

InitFind == Init /\ username = PyStr("admin") /\ password = PyStr("secret")

SpecFind == InitFind /\ [][NextFind]_vars

\* ------------------------------------------------------------------------
\* Properties
\* ------------------------------------------------------------------------
PutsIn(call) == IF call.req = Unsent THEN 0 ELSE 1

\* C1: a create() that directly follows a create() of the same handle that
\* returned True (one PUT sent), and whose HEAD answers 200, returns False
\* and sends no PUT, so one PUT is sent across the two calls.
C1_SecondCreateSendsNoPut ==
    (last.op = "create" /\ last.after = last.caller /\ last.head.status = 200)
        => /\ last.kind = "return"
           /\ last.value = PyBool(FALSE)
           /\ 1 + PutsIn(last) = 1

C1_Witness ==
    /\ last.op = "create"
    /\ last.after = last.caller
    /\ last.head.status = 200
    /\ last.value = PyBool(FALSE)
    /\ created = 1

\* C2: create() whose HEAD answers 404 and whose PUT is answered 2xx returns
\* True, and an exists() of the same caller that directly follows it, with no
\* other client acting in between and its HEAD answered by the server (200 or
\* 404), returns True.
C2_ExistsAfterCreate ==
    /\ (last.op = "create" /\ last.head.status = 404 /\ last.req.status \in 200..299)
          => (last.kind = "return" /\ last.value = PyBool(TRUE))
    /\ (last.op = "exists" /\ last.after = last.caller /\ last.head.status \in {200, 404})
          => (last.kind = "return" /\ last.value = PyBool(TRUE))

C2_Witness ==
    /\ last.op = "exists"
    /\ last.after = last.caller
    /\ last.kind = "return"
    /\ last.value = PyBool(TRUE)

\* C3: exists() returns True on status 200, False on 404, and raises on every
\* other status.
C3_ExistsStatusContract ==
    (last.op = "exists" /\ last.head.status > 0)
        => /\ last.head.status = 200 => (last.kind = "return" /\ last.value = PyBool(TRUE))
           /\ last.head.status = 404 => (last.kind = "return" /\ last.value = PyBool(FALSE))
           /\ last.head.status \notin {200, 404} => last.kind = "raise"

\* C4: a Client whose first GET /_all_dbs was answered 200 sends exactly one
\* GET however often databases is read, and every read returns the list of
\* that first answer.
C4_ListedOnce ==
    \A c \in Callers :
        first[c].status = 200
            => /\ gets[c] = 1
               /\ (last.op = "databases" /\ last.caller = c)
                     => (last.kind = "return" /\ last.value = first[c].json)

\* C5: when the GET /_all_dbs of databases fails (status 400 and above, or no
\* response), the call raises and Client._databases keeps its value, which is
\* not a memoized list; the next databases call of that Client sends a new GET.
C5_FailedListingNotCached ==
    [][\A c \in Callers :
          /\ (/\ gets'[c] = gets[c] + 1
              /\ (last'.req.status = 0 \/ last'.req.status >= 400))
                => /\ last'.kind = "raise"
                   /\ _databases'[c] = _databases[c]
                   /\ _databases'[c] \in {None, PyList(<<>>)}
          /\ (/\ last.op = "databases" /\ last.caller = c /\ last.kind = "raise"
              /\ calls' = calls + 1 /\ pc' = pc
              /\ last'.op = "databases" /\ last'.caller = c)
                => gets'[c] = gets[c] + 1]_vars

C5_Witness ==
    \E c \in Callers :
        /\ last.op = "databases" /\ last.caller = c
        /\ first[c].status = 500
        /\ gets[c] = 2
        /\ last.req.status = 0
        /\ _databases[c] = None

\* C6: with no other client and every PUT answered 2xx or with an error, at
\* most one create() returns True, and a create() whose PUT is answered with
\* status 400 or above raises.
C6_RaceAtMostOneCreated ==
    /\ (otherActs = 0 /\ ~oddPut) => created <= 1
    /\ (last.op = "create" /\ last.req.status >= 400) => last.kind = "raise"

\* both callers saw 404 and both sent a PUT: the other caller's create()
\* returned True just before this caller's PUT was answered 412
C6_Witness ==
    /\ last.op = "create"
    /\ last.after \notin {0, last.caller}
    /\ last.head.status = 404
    /\ last.req.status = 412
    /\ last.kind = "raise"
    /\ otherActs = 0
    /\ created = 1

ErrorStatus(r, method) ==
    /\ r.status > 0
    /\ r.status \notin 200..299
    /\ ~(method = "HEAD" /\ r.status = 404)

\* C7: an operation that received a status outside 200-299 raises, except for
\* a 404 answer to the HEAD of exists().
C7_NonSuccessRaises ==
    (ErrorStatus(last.head, "HEAD") \/ ErrorStatus(last.req, "other"))
        => last.kind = "raise"

\* C8: find() sends sort = [{f: "desc"}] or [{f: "asc"}] for a field name f,
\* by the descending flag, and sends a non-empty sort list unchanged, with the
\* same body whatever the descending flag.
C8_SortPayload ==
    (last.op = "find" /\ lastReq.path = FindUrl)
        => /\ (last.args.sort.t = "str" /\ last.args.sort.v # "")
                => lastReq.body.sort =
                       PyList(<< PyDict(<< <<last.args.sort.v,
                           IF last.args.descending = PyBool(TRUE) THEN "desc" ELSE "asc">> >>) >>)
           /\ (last.args.sort.t = "list" /\ Len(last.args.sort.v) > 0)
                => /\ lastReq.body.sort = last.args.sort
                   /\ \A d \in {PyBool(FALSE), PyBool(TRUE)} :
                         FindPayload([last.args EXCEPT !.descending = d]) = lastReq.body

C8_Witness ==
    /\ last.op = "find"
    /\ last.args.sort = SortByAge
    /\ last.args.descending = PyBool(TRUE)
    /\ lastReq.body.sort = SortByAge

NonEmpty(x) == x.t = "str" /\ x.v # ""

\* C9: a request carries the pair (username, password) when both are
\* non-empty strings, and no credentials at all otherwise.
C9_AuthAllOrNothing ==
    lastReq.method # "none"
        => IF NonEmpty(username) /\ NonEmpty(password)
           THEN lastReq.auth = <<username, password>>
           ELSE lastReq.auth = <<>>

C9_Witness ==
    /\ lastReq.method = "POST"
    /\ username = PyStr("admin")
    /\ password = PyStr("")
    /\ lastReq.auth = <<>>

\* C10: create() sends its PUT only after its HEAD was answered 404; on 200 it
\* returns False without a PUT; on any other status or no response it raises
\* without a PUT.
C10_PutOnlyAfter404 ==
    /\ \A t \in Callers : pc[t] = "create_put" => head[t].status = 404
    /\ last.op = "create"
          => /\ last.req # Unsent => last.head.status = 404
             /\ last.head.status = 200
                   => (last.kind = "return" /\ last.value = PyBool(FALSE) /\ last.req = Unsent)
             /\ last.head.status \notin {200, 404}
                   => (last.kind = "raise" /\ last.req = Unsent)

====
